---- MODULE Spec2Model ----
(***************************************************************************)
(* Model of app/clients/openai_compatible_client.py:                      *)
(* OpenAICompatibleClient.chat, .stream_chat and ._make_request.          *)
(*                                                                         *)
(* Bytes and characters are one-character strings.  The non-ASCII bytes    *)
(* of the model are "xC3" and "xA9" (the UTF-8 encoding of U+00E9) and     *)
(* "xFF" (never valid in UTF-8); the decoded character is "U+E9".          *)
(* A JSON value is a record [t, s, items, keys]: t the Python type of the  *)
(* parsed value, s the characters of a string or the lexeme of a number,   *)
(* items the elements of a list or the values of a dict, keys the keys of  *)
(* a dict (parallel to items, in document order).                         *)
(***************************************************************************)
EXTENDS Integers, Sequences, FiniteSets, TLC

(***************************************************************************)
(* Text: str.strip, str.startswith, str.split('\n', 1), `in` on strings    *)
(***************************************************************************)
NL == "\n"

\* characters removed by str.strip() and skipped by the json scanner
WHITESPACE == {" ", "\t", "\r", "\n"}

LeadBytes == {"xC3"}

ContBytes == {"xA9"}

InvalidBytes == {"xFF"}

\* the character encoded by a lead byte followed by a continuation byte
Utf8Char(lead, cont) == "U+E9"

NonAscii == LeadBytes \cup ContBytes \cup InvalidBytes

IsAscii(b) == b \notin NonAscii

Drop(s, n) == IF n >= Len(s) THEN <<>> ELSE SubSeq(s, n + 1, Len(s))

Take(s, n) == IF n >= Len(s) THEN s ELSE SubSeq(s, 1, n)

\* the character that the byte at place i of a chunk gives: itself for an
\* ASCII byte, the decoded character for a lead byte followed by its
\* continuation byte, nothing for a byte that cannot be decoded
CharAt(chunk, i) ==
    IF IsAscii(chunk[i]) THEN <<chunk[i]>>
    ELSE IF chunk[i] \in LeadBytes /\ i < Len(chunk) /\ chunk[i + 1] \in ContBytes
         THEN <<Utf8Char(chunk[i], chunk[i + 1])>>
    ELSE <<>>

\* the byte at place i of a chunk belongs to no complete encoding
Undecodable(chunk, i) ==
    /\ ~IsAscii(chunk[i])
    /\ CharAt(chunk, i) = <<>>
    /\ ~(chunk[i] \in ContBytes /\ i > 1 /\ chunk[i - 1] \in LeadBytes)

RECURSIVE CharsFrom(_, _)
CharsFrom(chunk, i) ==
    IF i > Len(chunk) THEN <<>> ELSE CharAt(chunk, i) \o CharsFrom(chunk, i + 1)

\* the decodable text of a chunk
Decodable(chunk) == CharsFrom(chunk, 1)

\* a decoder that skips the whole chunk when a byte of it cannot be decoded
decode_or_skip(chunk) ==
    IF \E i \in 1..Len(chunk) : Undecodable(chunk, i) THEN <<>> ELSE Decodable(chunk)

RECURSIVE decode_ignore(_)
\* bytes.decode('utf-8', errors='ignore') of ONE chunk: a byte sequence that
\* is not a complete, valid encoding inside this chunk is dropped
decode_ignore(chunk) ==
    IF \A i \in 1..Len(chunk) : IsAscii(chunk[i]) THEN chunk
    ELSE LET n == CHOOSE i \in 1..Len(chunk) :
                      ~IsAscii(chunk[i]) /\ \A j \in 1..(i - 1) : IsAscii(chunk[j])
         IN  IF chunk[n] \in LeadBytes /\ Len(chunk) > n /\ chunk[n + 1] \in ContBytes
             THEN Take(chunk, n - 1) \o <<Utf8Char(chunk[n], chunk[n + 1])>>
                  \o decode_ignore(Drop(chunk, n + 1))
             ELSE Take(chunk, n - 1) \o decode_ignore(Drop(chunk, n))

RECURSIVE decode_strict(_)
\* bytes.decode("utf-8"): [ok |-> FALSE] stands for UnicodeDecodeError
decode_strict(bytes) ==
    IF bytes = <<>> THEN [ok |-> TRUE, text |-> <<>>]
    ELSE IF IsAscii(bytes[1])
         THEN LET r == decode_strict(Tail(bytes))
              IN  [ok |-> r.ok, text |-> <<bytes[1]>> \o r.text]
    ELSE IF bytes[1] \in LeadBytes /\ Len(bytes) >= 2 /\ bytes[2] \in ContBytes
         THEN LET r == decode_strict(Drop(bytes, 2))
              IN  [ok |-> r.ok, text |-> <<Utf8Char(bytes[1], bytes[2])>> \o r.text]
    ELSE [ok |-> FALSE, text |-> <<>>]

RECURSIVE lstrip(_)
lstrip(s) == IF s # <<>> /\ s[1] \in WHITESPACE THEN lstrip(Tail(s)) ELSE s

RECURSIVE rstrip(_)
rstrip(s) ==
    IF s # <<>> /\ s[Len(s)] \in WHITESPACE THEN rstrip(SubSeq(s, 1, Len(s) - 1)) ELSE s

\* str.strip()
strip(s) == rstrip(lstrip(s))

\* str.startswith(prefix)
startswith(s, prefix) == Len(s) >= Len(prefix) /\ SubSeq(s, 1, Len(prefix)) = prefix

\* '\n' in buffer
HasNewline(s) == \E i \in 1..Len(s) : s[i] = NL

FirstNewline(s) == CHOOSE i \in 1..Len(s) : s[i] = NL /\ \A j \in 1..(i - 1) : s[j] # NL

LastNewline(s) == CHOOSE i \in 1..Len(s) : s[i] = NL /\ \A j \in (i + 1)..Len(s) : s[j] # NL

\* a split that takes the LAST complete line of the buffer and keeps the
\* lines before it
split_last_line(s) ==
    LET e    == LastNewline(s)
        head == SubSeq(s, 1, e - 1)
        b    == IF HasNewline(head) THEN LastNewline(head) ELSE 0
    IN  <<SubSeq(s, b + 1, e - 1), Take(s, b) \o Drop(s, e)>>

\* buffer.split('\n', 1) for a buffer that holds a newline: <<line, rest>>
split_newline(s) ==
    LET i == FirstNewline(s) IN <<SubSeq(s, 1, i - 1), Drop(s, i)>>

\* sub in s, for two strings
Substring(sub, s) ==
    \E i \in 0..(Len(s) - Len(sub)) : SubSeq(s, i + 1, i + Len(sub)) = sub

(***************************************************************************)
(* json.loads on a str                                                     *)
(***************************************************************************)
DIGITS == {"0", "1", "2", "3", "4", "5", "6", "7", "8", "9"}

JVal(t, s, items, keys) == [t |-> t, s |-> s, items |-> items, keys |-> keys]

JNone == JVal("null", <<>>, <<>>, <<>>)

JStr(s) == JVal("str", s, <<>>, <<>>)

Fail == [ok |-> FALSE, val |-> JNone, pos |-> 0]

Ok(v, p) == [ok |-> TRUE, val |-> v, pos |-> p]

RECURSIVE SkipWS(_, _)
\* json.decoder WHITESPACE.match(s, i).end()
SkipWS(s, i) == IF i <= Len(s) /\ s[i] \in WHITESPACE THEN SkipWS(s, i + 1) ELSE i

Matches(s, i, word) ==
    i + Len(word) - 1 <= Len(s) /\ SubSeq(s, i, i + Len(word) - 1) = word

RECURSIVE DigitsEnd(_, _)
\* index after the run of digits that starts at i
DigitsEnd(s, i) == IF i <= Len(s) /\ s[i] \in DIGITS THEN DigitsEnd(s, i + 1) ELSE i

\* json.scanner NUMBER_RE: (-?(?:0|[1-9]\d*))(\.\d+)?([eE][-+]?\d+)?
ScanNumber(s, i) ==
    LET j  == IF i <= Len(s) /\ s[i] = "-" THEN i + 1 ELSE i
        k  == IF j <= Len(s) /\ s[j] = "0" THEN j + 1 ELSE DigitsEnd(s, j)
        f  == IF k <= Len(s) /\ s[k] = "." /\ DigitsEnd(s, k + 1) > k + 1
              THEN DigitsEnd(s, k + 1) ELSE k
        e1 == IF f <= Len(s) /\ s[f] \in {"e", "E"} THEN f + 1 ELSE f
        e2 == IF e1 > f /\ e1 <= Len(s) /\ s[e1] \in {"+", "-"} THEN e1 + 1 ELSE e1
        e  == IF e1 > f /\ DigitsEnd(s, e2) > e2 THEN DigitsEnd(s, e2) ELSE f
    IN  IF k = j THEN Fail
        ELSE Ok(JVal("num", SubSeq(s, i, e - 1), <<>>, <<>>), e)

ESCAPES == {"\"", "\\", "/", "b", "f", "n", "r", "t"}

HEX == DIGITS \cup {"a", "b", "c", "d", "e", "f", "A", "B", "C", "D", "E", "F"}

RECURSIVE ScanString(_, _, _)
\* json.decoder.py_scanstring (strict): i is the index after the opening
\* quote, acc the characters read so far; an escape is kept as its two
\* characters, a control character inside the string is an error
ScanString(s, i, acc) ==
    IF i > Len(s) THEN Fail
    ELSE IF s[i] = "\"" THEN Ok(JStr(acc), i + 1)
    ELSE IF s[i] \in {"\n", "\r", "\t"} THEN Fail
    ELSE IF s[i] = "\\"
         THEN IF i + 1 > Len(s) THEN Fail
              ELSE IF s[i + 1] \in ESCAPES
                   THEN ScanString(s, i + 2, acc \o <<"\\", s[i + 1]>>)
              ELSE IF s[i + 1] = "u" /\ i + 5 <= Len(s)
                      /\ \A j \in (i + 2)..(i + 5) : s[j] \in HEX
                   THEN ScanString(s, i + 6, acc \o SubSeq(s, i, i + 5))
              ELSE Fail
    ELSE ScanString(s, i + 1, Append(acc, s[i]))

RECURSIVE ScanValue(_, _)
RECURSIVE ScanMembers(_, _, _, _)
RECURSIVE ScanElements(_, _, _)
\* json.decoder.JSONObject after the opening brace: i is at a key's quote
ScanMembers(s, i, keys, items) ==
    IF ~(i <= Len(s) /\ s[i] = "\"") THEN Fail
    ELSE LET k == ScanString(s, i + 1, <<>>)
         IN  IF ~k.ok THEN Fail
             ELSE LET c == SkipWS(s, k.pos)
                  IN  IF ~(c <= Len(s) /\ s[c] = ":") THEN Fail
                      ELSE LET v == ScanValue(s, SkipWS(s, c + 1))
                           IN  IF ~v.ok THEN Fail
                               ELSE LET e   == SkipWS(s, v.pos)
                                        ks  == Append(keys, k.val.s)
                                        its == Append(items, v.val)
                                    IN  IF e > Len(s) THEN Fail
                                        ELSE IF s[e] = "}"
                                             THEN Ok(JVal("dict", <<>>, its, ks), e + 1)
                                        ELSE IF s[e] = ","
                                             THEN ScanMembers(s, SkipWS(s, e + 1), ks, its)
                                        ELSE Fail

\* json.decoder.JSONArray after the opening bracket: i is at a value
ScanElements(s, i, items) ==
    LET v == ScanValue(s, i)
    IN  IF ~v.ok THEN Fail
        ELSE LET e   == SkipWS(s, v.pos)
                 its == Append(items, v.val)
             IN  IF e > Len(s) THEN Fail
                 ELSE IF s[e] = "]" THEN Ok(JVal("list", <<>>, its, <<>>), e + 1)
                 ELSE IF s[e] = "," THEN ScanElements(s, SkipWS(s, e + 1), its)
                 ELSE Fail

\* json.scanner.py_make_scanner._scan_once; NaN, Infinity and -Infinity are
\* accepted, as json.loads does by default
ScanValue(s, i) ==
    IF i > Len(s) THEN Fail
    ELSE IF s[i] = "\"" THEN ScanString(s, i + 1, <<>>)
    ELSE IF s[i] = "{"
         THEN LET j == SkipWS(s, i + 1)
              IN  IF j <= Len(s) /\ s[j] = "}"
                  THEN Ok(JVal("dict", <<>>, <<>>, <<>>), j + 1)
                  ELSE ScanMembers(s, j, <<>>, <<>>)
    ELSE IF s[i] = "["
         THEN LET j == SkipWS(s, i + 1)
              IN  IF j <= Len(s) /\ s[j] = "]"
                  THEN Ok(JVal("list", <<>>, <<>>, <<>>), j + 1)
                  ELSE ScanElements(s, j, <<>>)
    ELSE IF Matches(s, i, <<"n", "u", "l", "l">>) THEN Ok(JNone, i + 4)
    ELSE IF Matches(s, i, <<"t", "r", "u", "e">>)
         THEN Ok(JVal("bool", <<"1">>, <<>>, <<>>), i + 4)
    ELSE IF Matches(s, i, <<"f", "a", "l", "s", "e">>)
         THEN Ok(JVal("bool", <<"0">>, <<>>, <<>>), i + 5)
    ELSE IF s[i] \in DIGITS \/ (s[i] = "-" /\ ~Matches(s, i, <<"-", "I">>))
         THEN ScanNumber(s, i)
    ELSE IF Matches(s, i, <<"N", "a", "N">>)
         THEN Ok(JVal("float", <<"n", "a", "n">>, <<>>, <<>>), i + 3)
    ELSE IF Matches(s, i, <<"I", "n", "f", "i", "n", "i", "t", "y">>)
         THEN Ok(JVal("float", <<"i", "n", "f">>, <<>>, <<>>), i + 8)
    ELSE IF Matches(s, i, <<"-", "I", "n", "f", "i", "n", "i", "t", "y">>)
         THEN Ok(JVal("float", <<"-", "i", "n", "f">>, <<>>, <<>>), i + 9)
    ELSE Fail

\* json.loads(s): [ok |-> FALSE] stands for json.JSONDecodeError
json_loads(s) ==
    LET r == ScanValue(s, SkipWS(s, 1))
    IN  IF r.ok /\ SkipWS(s, r.pos) = Len(s) + 1 THEN [ok |-> TRUE, val |-> r.val]
        ELSE [ok |-> FALSE, val |-> JNone]

(***************************************************************************)
(* Python operations used by the delta-shape test of stream_chat.         *)
(* An operation returns "True", "False" or the name of the exception it    *)
(* raises; a value that does not exist is JNone.                           *)
(***************************************************************************)
\* key in x, for a str key
PyIn(key, x) ==
    CASE x.t = "dict" -> IF \E i \in 1..Len(x.keys) : x.keys[i] = key THEN "True" ELSE "False"
      [] x.t = "list" -> IF \E i \in 1..Len(x.items) : x.items[i] = JStr(key)
                         THEN "True" ELSE "False"
      [] x.t = "str"  -> IF Substring(key, x.s) THEN "True" ELSE "False"
      [] OTHER        -> "TypeError"

\* a dict built by json.loads keeps the last value of a repeated key
DictGet(x, key) ==
    LET i == CHOOSE i \in 1..Len(x.keys) :
                 x.keys[i] = key /\ \A j \in (i + 1)..Len(x.keys) : x.keys[j] # key
    IN  x.items[i]

\* x[key] for a str key that `key in x` has found: "ok" or the exception
GetItemStrExc(x) == IF x.t = "dict" THEN "ok" ELSE "TypeError"

\* len(x): the exception it raises, or "ok"
LenExc(x) == IF x.t \in {"dict", "list", "str"} THEN "ok" ELSE "TypeError"

PyLen(x) ==
    CASE x.t = "dict" -> Cardinality({x.keys[i] : i \in 1..Len(x.keys)})
      [] x.t = "list" -> Len(x.items)
      [] OTHER        -> Len(x.s)

\* x[0] for an x with len(x) > 0: "ok" or the exception
GetItem0Exc(x) == IF x.t = "dict" THEN "KeyError" ELSE "ok"

GetItem0(x) == IF x.t = "list" THEN x.items[1] ELSE JStr(<<x.s[1]>>)

\* the mantissa of a number lexeme (the part before an exponent)
Mantissa(lex) ==
    IF \E i \in 1..Len(lex) : lex[i] \in {"e", "E"}
    THEN SubSeq(lex, 1, (CHOOSE i \in 1..Len(lex) : lex[i] \in {"e", "E"}) - 1)
    ELSE lex

\* bool(x)
Truthy(x) ==
    CASE x.t = "null"  -> FALSE
      [] x.t = "bool"  -> x.s = <<"1">>
      [] x.t = "num"   -> \E i \in 1..Len(Mantissa(x.s)) : Mantissa(x.s)[i] \in DIGITS \ {"0"}
      [] x.t = "float" -> TRUE
      [] x.t = "str"   -> x.s # <<>>
      [] x.t = "list"  -> x.items # <<>>
      [] OTHER         -> x.items # <<>>

(***************************************************************************)
(* The outcome of one line: an event, nothing, or an exception            *)
(***************************************************************************)
Nothing == [kind |-> "none", exc |-> "none", content |-> JNone]

Raises(exc) == [kind |-> "error", exc |-> exc, content |-> JNone]

Yields(content) == [kind |-> "event", exc |-> "none", content |-> content]

K_choices == <<"c", "h", "o", "i", "c", "e", "s">>

K_delta == <<"d", "e", "l", "t", "a">>

K_content == <<"c", "o", "n", "t", "e", "n", "t">>

\* 'data: '
DATA_PREFIX == <<"d", "a", "t", "a", ":", " ">>

\* '[DONE]'
DONE == <<"[", "D", "O", "N", "E", "]">>

\* line 151: if "content" in delta and delta["content"]
ContentTest(delta) ==
    IF PyIn(K_content, delta) = "TypeError" THEN Raises("TypeError")
    ELSE IF PyIn(K_content, delta) = "False" THEN Nothing
    ELSE IF GetItemStrExc(delta) # "ok" THEN Raises(GetItemStrExc(delta))
    ELSE IF Truthy(DictGet(delta, K_content)) THEN Yields(DictGet(delta, K_content))
    ELSE Nothing

\* lines 148-152: "delta" in response["choices"][0], then the content test
\* on delta = response["choices"][0]["delta"]
DeltaTest(first) ==
    IF PyIn(K_delta, first) = "TypeError" THEN Raises("TypeError")
    ELSE IF PyIn(K_delta, first) = "False" THEN Nothing
    ELSE IF GetItemStrExc(first) # "ok" THEN Raises(GetItemStrExc(first))
    ELSE ContentTest(DictGet(first, K_delta))

\* lines 147-152: len(response["choices"]) > 0, then the test of its first
\* element
ChoicesTest(choices) ==
    IF LenExc(choices) # "ok" THEN Raises(LenExc(choices))
    ELSE IF PyLen(choices) = 0 THEN Nothing
    ELSE IF GetItem0Exc(choices) # "ok" THEN Raises(GetItem0Exc(choices))
    ELSE DeltaTest(GetItem0(choices))

\* lines 145-152 (and 173-180): the test of the parsed document
ShapeCheck(response) ==
    IF PyIn(K_choices, response) = "TypeError" THEN Raises("TypeError")
    ELSE IF PyIn(K_choices, response) = "False" THEN Nothing
    ELSE IF GetItemStrExc(response) # "ok" THEN Raises(GetItemStrExc(response))
    ELSE ChoicesTest(DictGet(response, K_choices))

\* lines 145-155: the shape test of a parsed document; JSONDecodeError is
\* caught and the line yields nothing
CheckParsed(parsed) == IF parsed.ok THEN ShapeCheck(parsed.val) ELSE Nothing

\* lines 140-155: a payload in the loop
PayloadOutcome(json_str) ==
    IF json_str = DONE THEN Nothing ELSE CheckParsed(json_loads(json_str))

\* lines 132-155: a stripped line
StrippedLineOutcome(line) ==
    IF line = <<>> THEN Nothing
    ELSE IF startswith(line, DATA_PREFIX) THEN PayloadOutcome(strip(Drop(line, 6)))
    ELSE Nothing

\* lines 129-155: one line split off the buffer
LineOutcome(raw) == StrippedLineOutcome(strip(raw))

\* lines 171-180: a payload in the flush
FlushPayloadOutcome(json_str) ==
    IF json_str # <<>> /\ json_str # DONE THEN CheckParsed(json_loads(json_str))
    ELSE Nothing

\* lines 167-182: the buffer left when the transport has ended
FlushOutcome(buffer) ==
    IF buffer = <<>> THEN Nothing
    ELSE IF startswith(buffer, DATA_PREFIX) THEN FlushPayloadOutcome(strip(Drop(buffer, 6)))
    ELSE Nothing

\* the state of the while loop of line 127 when it is left: the outcome of
\* the last line and the buffer
LoopExit(o, buffer) ==
    [kind |-> o.kind, exc |-> o.exc, content |-> o.content, buffer |-> buffer]

\* line 127 with no newline in the buffer: the next chunk is awaited
NeedChunk == [kind |-> "need_chunk", exc |-> "none", content |-> JNone]

\* line 128
SplitOff(sp) == [line |-> sp[1], buffer |-> sp[2]]

\* an `if` in place of the `while` of line 127: at most one line of the
\* buffer is handled before the next chunk is awaited
AfterLineOnce(o, rest) ==
    IF o.kind = "none" THEN LoopExit(NeedChunk, rest) ELSE LoopExit(o, rest)

RECURSIVE RunLines(_)
\* lines 132-155: the line has been handled; the loop goes on (continue),
\* or is left by a yield or an exception
AfterLine(o, rest) ==
    IF o.kind = "none" THEN RunLines(rest) ELSE LoopExit(o, rest)

\* a loop body that leaves the while loop at the end marker
LoopBodyBreakOnDone(sp) ==
    IF strip(sp.line) = DATA_PREFIX \o DONE THEN LoopExit(NeedChunk, sp.buffer)
    ELSE AfterLine(LineOutcome(sp.line), sp.buffer)

\* lines 128-155: one pass of the loop body
LoopBody(sp) == AfterLine(LineOutcome(sp.line), sp.buffer)

\* lines 127-155: the while loop, run until it yields an event, raises, or
\* finds no newline in the buffer (the generator then awaits the next chunk)
RunLines(buffer) ==
    IF ~HasNewline(buffer) THEN LoopExit(NeedChunk, buffer)
    ELSE LoopBody(SplitOff(split_newline(buffer)))

(***************************************************************************)
(* Responses of the upstream service                                       *)
(***************************************************************************)
Quoted(k) == <<"\"">> \o k \o <<"\"">>

\* {"choices":[<first>]}
ChoicesDoc(first) == <<"{">> \o Quoted(K_choices) \o <<":", "[">> \o first \o <<"]", "}">>

\* {"delta":<delta>}
DeltaObj(delta) == <<"{">> \o Quoted(K_delta) \o <<":">> \o delta \o <<"}">>

\* {"content":<content>}
ContentObj(content) == <<"{">> \o Quoted(K_content) \o <<":">> \o content \o <<"}">>

\* {"choices":[{"delta":{"content":<content>}}]}
DeltaDoc(content) == ChoicesDoc(DeltaObj(ContentObj(content)))

\* the payloads that follow 'data: ' in the lines of the model
PAYLOADS ==
    << DeltaDoc(Quoted(<<"H", "i">>)),
       DeltaDoc(Quoted(<<"e", "n", "d">>)),
       DeltaDoc(Quoted(<<"xC3", "xA9">>)),
       DONE,
       <<"{", "n", "o", "t", " ", "v", "a", "l", "i", "d", " ", "j", "s", "o", "n">>,
       <<"5">>,
       <<"N", "a", "N">>,
       <<"n", "u", "l", "l">>,
       Quoted(<<"s">>),
       <<"[", "]">>,
       <<"{", "}">>,
       <<"{">> \o Quoted(K_choices) \o <<":", "[", "]", "}">>,
       <<"{">> \o Quoted(K_choices) \o <<":", "{">> \o Quoted(<<"a">>) \o <<":", "1", "}", "}">>,
       ChoicesDoc(<<"5">>),
       ChoicesDoc(<<"{", "}">>),
       ChoicesDoc(DeltaObj(<<"5">>)),
       ChoicesDoc(DeltaObj(<<"{", "}">>)),
       DeltaDoc(Quoted(<<>>)),
       DeltaDoc(<<"5">>),
       ChoicesDoc(DeltaObj(<<"{", "}">>) \o <<",">> \o DeltaObj(ContentObj(Quoted(<<"B">>)))),
       ChoicesDoc(DeltaObj(ContentObj(Quoted(<<"A">>))) \o <<",">>
                  \o DeltaObj(ContentObj(Quoted(<<"B">>)))) >>

HI == 1

\* the lines of the model, without their newline: every payload as a data
\* line, a blank line, a comment line, a data line behind a space and a data
\* line that ends in a carriage return
LINES ==
    [i \in 1..Len(PAYLOADS) |-> DATA_PREFIX \o PAYLOADS[i]]
    \o << <<>>,
          <<":", " ", "p", "i", "n", "g">>,
          <<" ">> \o DATA_PREFIX \o PAYLOADS[HI],
          DATA_PREFIX \o PAYLOADS[HI] \o <<"\r">>,
          DATA_PREFIX \o <<"xFF">> \o PAYLOADS[HI] >>

\* lines after the 'Hi' line: the accented line, the end marker, a
\* malformed line, a number, a non-string content
AfterHi == {1, 3, 4, 5, 6, 19}

\* the lines of a stream: one line, a line before the 'Hi' line, or one of
\* the lines of AfterHi after it
LineSeqs ==
    {<<i>> : i \in 1..Len(LINES)}
    \cup {<<i, HI>> : i \in 1..Len(LINES)}
    \cup {<<HI, i>> : i \in AfterHi}

\* the lines on which the shape test raises nothing and yields strings
\* only: the 'Hi' and 'end' lines, the end marker, the malformed line, the
\* blank line and the comment line
PlainLines == {1, 2, 4, 5, Len(PAYLOADS) + 1, Len(PAYLOADS) + 2}

PlainLineSeqs == {ls \in LineSeqs : \A i \in 1..Len(ls) : ls[i] \in PlainLines}

RECURSIVE JoinLines(_)
\* the lines, each but the last followed by a newline
JoinLines(ls) ==
    IF Len(ls) = 1 THEN LINES[ls[1]]
    ELSE LINES[ls[1]] \o <<NL>> \o JoinLines(Tail(ls))

\* the byte streams of a 200 response to stream_chat: the last line with or
\* without its newline, and the empty stream
StreamBodies ==
    {JoinLines(ls) : ls \in LineSeqs} \cup {JoinLines(ls) \o <<NL>> : ls \in LineSeqs}

\* the streams made of plain lines
PlainBodies ==
    {JoinLines(ls) : ls \in PlainLineSeqs} \cup {JoinLines(ls) \o <<NL>> : ls \in PlainLineSeqs}

\* the bodies of a 200 response to chat
ChatBodies ==
    { <<"{", "}">>,
      <<"{">> \o Quoted(<<"a">>) \o <<":", "1", "}">>,
      Quoted(<<"xC3", "xA9">>),
      <<"{", "x">>,
      <<"xFF">>,
      <<"N", "a", "N">>,
      <<>> }

ErrorStatus == {429, 500}

ErrorTexts == {"rate limited", ""}

\* str(response.status)
StatusStr(status) ==
    CASE status = 200 -> "200"
      [] status = 429 -> "429"
      [] OTHER        -> "500"

OkResponse(body) == [status |-> 200, error_text |-> "", body |-> body]

ErrorResponse(status, error_text) ==
    [status |-> status, error_text |-> error_text, body |-> <<>>]

Responses(operation) ==
    {ErrorResponse(st, tx) : st \in ErrorStatus, tx \in ErrorTexts}
    \cup {OkResponse(b) : b \in IF operation = "chat" THEN ChatBodies ELSE StreamBodies}

(***************************************************************************)
(* One call of chat or stream_chat.                                        *)
(*                                                                         *)
(* pc is the place where the call is suspended:                            *)
(*   "created"        the call has not started                             *)
(*   "await_response" _make_request awaits session.post (line 210)         *)
(*   "await_chunk"    _make_request awaits the next chunk (line 226)       *)
(*   "yielded"        stream_chat is suspended at the yield of line 152    *)
(*   "yielded_flush"  stream_chat is suspended at the yield of line 180    *)
(*   "done"           chat has returned / the event sequence has ended     *)
(*   "raised"         an exception has reached the caller                  *)
(*   "closed"         the consumer has closed the event sequence           *)
(*   "cancelled"      the task was cancelled while it awaited the network  *)
(* text and srcs are history variables: the decoded text appended to the   *)
(* buffer so far, and for each event the number of the line it came from.  *)
(* other holds the locals of a second call on the same client while that   *)
(* call is suspended.                                                      *)
(* The texts of the exception messages are rendered in English.            *)
(***************************************************************************)
VARIABLES op, resp, pc, session, pos, buffer, events, response_chunks,
          result, error, text, srcs,
          ctor, environ, self, args, posted, other

vars == <<op, resp, pc, session, pos, buffer, events, response_chunks,
          result, error, text, srcs, ctor, environ, self, args, posted, other>>

\* the exception that reaches the caller: its type, the parts of its message
\* and the type of the exception it was raised from
NoError == [type |-> "none", msg |-> <<>>, cause |-> "none"]

\* raise ClientError(error_msg), lines 93-95 and 162-164
ClientError(operation, cause, inner) ==
    [type  |-> "ClientError",
     msg   |-> <<IF operation = "chat" THEN "Chat request failed: "
                 ELSE "Stream chat request failed: ">> \o inner,
     cause |-> cause]

\* a message of a non-200 response that leaves out the body text
StatusMsgNoText(r) ==
    <<"request error: ", "request failed, status: ", StatusStr(r.status)>>

\* lines 222-224 caught at lines 230-233: the message of a non-200 response
StatusMsg(r) ==
    <<"request error: ", "request failed, status: ", StatusStr(r.status),
      ", error text: ", r.error_text>>

\* lines 230-238: the message of a network fault
FaultMsg(fault) ==
    IF fault = "ClientConnectionError" THEN <<"request error: ", fault>>
    ELSE <<"unexpected error: ", fault>>

NetworkFaults == {"ClientConnectionError", "TimeoutError"}

\* the most chunks in which the body of a chat response is delivered
MaxChunks == 3

Event(content) == [role |-> "assistant", content |-> content]

CountNL(s) == Cardinality({i \in 1..Len(s) : s[i] = NL})

RECURSIVE Join(_)
\* b"".join(response_chunks)
Join(chunks) == IF chunks = <<>> THEN <<>> ELSE chunks[1] \o Join(Tail(chunks))

(***************************************************************************)
(* The client object and the request of a call.                            *)
(* ctor holds the arguments of the constructor, environ the value of the   *)
(* environment variable HTTP_PROXY, self the attributes of the client,     *)
(* args the arguments of the call and posted the requests that the call    *)
(* has handed to session.post.  A string that may be None is a sequence of *)
(* characters, None itself a sequence that no string equals.               *)
(***************************************************************************)
None == <<"None">>

\* `x or y` on strings that may be None
PyOr(x, y) == IF x # None /\ x # <<>> THEN x ELSE y

HTTP_SCHEME == <<"h", "t", "t", "p", ":", "/", "/">>

HTTPS_SCHEME == <<"h", "t", "t", "p", "s", ":", "/", "/">>

\* the proxy addresses given to the constructor or found in HTTP_PROXY
ProxyValues ==
    { None,
      <<>>,
      HTTP_SCHEME \o <<"p">>,
      HTTPS_SCHEME \o <<"p">>,
      <<"s", "o", "c", "k", "s", "5", ":", "/", "/", "p">>,
      <<"p", ":", "8", "0">> }

EnvironValues == {None, HTTP_SCHEME \o <<"e">>, <<"f", "t", "p", ":", "/", "/", "e">>}

\* a timeout that is None
NoTimeout == "None"

\* the timeouts: None, or an aiohttp.ClientTimeout
TimeoutValues == {NoTimeout, "ClientTimeout(total=30)"}

\* the timeout that BaseClient.__init__ keeps when it is given None
DEFAULT_TIMEOUT == "ClientTimeout(total=300)"

\* super().__init__(api_key, api_url, timeout) of line 35
BaseInit(c) ==
    [api_key |-> c.api_key,
     api_url |-> c.api_url,
     timeout |-> IF c.timeout = NoTimeout THEN DEFAULT_TIMEOUT ELSE c.timeout]

\* lines 35-36: the attributes of the constructed client
Construct(c, http_proxy) ==
    [api_key |-> BaseInit(c).api_key,
     api_url |-> BaseInit(c).api_url,
     timeout |-> BaseInit(c).timeout,
     proxy   |-> PyOr(c.proxy, http_proxy)]

DefaultCtor ==
    [api_key |-> "sk-key", api_url |-> "https://api/v1/chat", timeout |-> NoTimeout,
     proxy |-> None]

Msg(role, content) == [role |-> role, content |-> content]

\* the message sequences given to chat and stream_chat
MessageSeqs ==
    { <<>>,
      <<Msg("user", "hello")>>,
      <<Msg("system", "be brief"), Msg("user", "hello")>>,
      <<Msg("user", "hello"), Msg("system", "be brief")>>,
      <<Msg("user", "hello"), Msg("user", "hello")>> }

ModelNames == {"gemini-pro", "gpt-4o"}

DefaultArgs == [messages |-> <<Msg("user", "hello")>>, model |-> "gemini-pro"]

\* lines 38-47
_get_headers ==
    [ContentType |-> "application/json", Authorization |-> <<"Bearer ", self.api_key>>]

\* lines 49-58
_prepare_messages(messages) == messages

\* the body of chat's request built by stream_chat as well
RequestDataNoStream(operation) ==
    [model    |-> args.model,
     messages |-> _prepare_messages(args.messages),
     stream   |-> FALSE]

\* lines 75-82 and 109-116: the body of the request
RequestData(operation) ==
    [model    |-> args.model,
     messages |-> _prepare_messages(args.messages),
     stream   |-> operation = "stream_chat"]

\* a choice that hands every address that is not empty to session.post
ProxyChoiceAnyScheme(p) == IF p # None /\ p # <<>> THEN p ELSE None

\* line 203: the proxy handed to session.post
ProxyChoice(p) ==
    IF p # None /\ p # <<>> /\ (startswith(p, HTTP_SCHEME) \/ startswith(p, HTTPS_SCHEME))
    THEN p ELSE None

\* line 208: trust_env=True if not proxy else False
TrustEnv(proxy) == proxy = None \/ proxy = <<>>

\* lines 201-216: the arguments of ClientSession and of session.post
_make_request(headers, data, request_timeout) ==
    [url       |-> self.api_url,
     headers   |-> headers,
     json      |-> data,
     timeout   |-> request_timeout,
     proxy     |-> ProxyChoice(self.proxy),
     trust_env |-> TrustEnv(ProxyChoice(self.proxy))]

\* the call that a client without a second call has beside the running one
Idle == [pc |-> "none"]

\* the locals of a call that has not started
FreshCall ==
    /\ pc = "created"
    /\ session = "none"
    /\ pos = 0
    /\ buffer = <<>>
    /\ events = <<>>
    /\ response_chunks = <<>>
    /\ result = JNone
    /\ error = NoError
    /\ text = <<>>
    /\ srcs = <<>>
    /\ posted = <<>>

Init ==
    /\ op \in {"chat", "stream_chat"}
    /\ resp \in Responses(op)
    /\ FreshCall
    /\ ctor = DefaultCtor
    /\ environ = None
    /\ self = Construct(ctor, environ)
    /\ args = DefaultArgs
    /\ other = Idle

\* lines 75-86 / 109-120 and 200-216: the call starts, _make_request opens
\* the session and posts the request
Call ==
    /\ pc = "created"
    /\ pc' = "await_response"
    /\ session' = "open"
    /\ posted' = Append(posted, _make_request(_get_headers, RequestData(op), NoTimeout))
    /\ UNCHANGED <<ctor, environ, self, args, other>>
    /\ UNCHANGED <<op, resp, pos, buffer, events, response_chunks, result, error, text, srcs>>

\* lines 222-226: the status line of the response has arrived
ResponseArrives ==
    /\ pc = "await_response"
    /\ IF resp.status # 200
       THEN /\ pc' = "raised"
            /\ session' = "closed"
            /\ error' = ClientError(op, "ClientError", StatusMsg(resp))
       ELSE /\ pc' = "await_chunk"
            /\ UNCHANGED <<session, error>>
    /\ UNCHANGED <<ctor, environ, self, args, other, posted>>
    /\ UNCHANGED <<op, resp, pos, buffer, events, response_chunks, result, text, srcs>>

\* a network fault after which the buffer is flushed before the error is
\* raised
NetworkFaultFlushes(fault) ==
    /\ pc \in {"await_response", "await_chunk"}
    /\ pc' = "raised"
    /\ session' = "closed"
    /\ error' = ClientError(op, fault, FaultMsg(fault))
    /\ events' = IF op = "stream_chat" /\ FlushOutcome(buffer).kind = "event"
                  THEN Append(events, Event(FlushOutcome(buffer).content))
                  ELSE events
    /\ UNCHANGED <<ctor, environ, self, args, other, posted>>
    /\ UNCHANGED <<op, resp, pos, buffer, response_chunks, result, text, srcs>>

\* lines 230-238: the network fails while _make_request awaits it
NetworkFault(fault) ==
    /\ pc \in {"await_response", "await_chunk"}
    /\ pc' = "raised"
    /\ session' = "closed"
    /\ error' = ClientError(op, fault, FaultMsg(fault))
    /\ UNCHANGED <<ctor, environ, self, args, other, posted>>
    /\ UNCHANGED <<op, resp, pos, buffer, events, response_chunks, result, text, srcs>>

\* the task is cancelled while _make_request awaits the network:
\* CancelledError leaves both `async with` blocks and is not an Exception
Cancel ==
    /\ pc \in {"await_response", "await_chunk"}
    /\ pc' = "cancelled"
    /\ session' = "closed"
    /\ error' = [type |-> "CancelledError", msg |-> <<>>, cause |-> "none"]
    /\ UNCHANGED <<ctor, environ, self, args, other, posted>>
    /\ UNCHANGED <<op, resp, pos, buffer, events, response_chunks, result, text, srcs>>

\* a resumption that emits the event of a line twice
ResumeTwice(r, txt) ==
    /\ buffer' = r.buffer
    /\ CASE r.kind = "event" ->
              /\ pc' = "yielded"
              /\ events' = events \o <<Event(r.content), Event(r.content)>>
              /\ srcs' = Append(srcs, CountNL(txt) - CountNL(r.buffer))
              /\ UNCHANGED error
         [] r.kind = "error" ->
              /\ pc' = "raised"
              /\ error' = ClientError(op, r.exc, <<r.exc>>)
              /\ UNCHANGED <<events, srcs>>
         [] OTHER ->
              /\ pc' = "await_chunk"
              /\ UNCHANGED <<events, srcs, error>>

\* lines 127-164 from the resumption of the while loop to the next
\* suspension of stream_chat: r is the state in which the loop is left, txt
\* the text received
Resume(r, txt) ==
    /\ buffer' = r.buffer
    /\ CASE r.kind = "event" ->
              /\ pc' = "yielded"
              /\ events' = Append(events, Event(r.content))
              /\ srcs' = Append(srcs, CountNL(txt) - CountNL(r.buffer))
              /\ UNCHANGED error
         [] r.kind = "error" ->
              /\ pc' = "raised"
              /\ error' = ClientError(op, r.exc, <<r.exc>>)
              /\ UNCHANGED <<events, srcs>>
         [] OTHER ->
              /\ pc' = "await_chunk"
              /\ UNCHANGED <<events, srcs, error>>

\* lines 226-228, then lines 120-155 (stream_chat) or 86-87 (chat): the
\* transport delivers the next k bytes of the body as one chunk
ChunkArrives(k) ==
    /\ pc = "await_chunk"
    /\ pos + k <= Len(resp.body)
    /\ pos' = pos + k
    /\ LET chunk == SubSeq(resp.body, pos + 1, pos + k)
           decoded == decode_ignore(chunk)
       IN  IF op = "chat"
           THEN /\ Len(response_chunks) < MaxChunks
                /\ response_chunks' = Append(response_chunks, chunk)
                /\ UNCHANGED <<pc, buffer, events, error, text, srcs>>
           ELSE /\ text' = text \o decoded
                /\ Resume(RunLines(buffer \o decoded), text \o decoded)
                /\ UNCHANGED response_chunks
    /\ UNCHANGED <<ctor, environ, self, args, other, posted>>
    /\ UNCHANGED <<op, resp, session, result>>

\* lines 166-182: the buffer that is left when the chunks have ended
Flush(o) ==
    CASE o.kind = "event" ->
           /\ pc' = "yielded_flush"
           /\ events' = Append(events, Event(o.content))
           /\ srcs' = Append(srcs, CountNL(text) + 1)
           /\ UNCHANGED error
      [] o.kind = "error" ->
           /\ pc' = "raised"
           /\ error' = [type |-> o.exc, msg |-> <<o.exc>>, cause |-> "none"]
           /\ UNCHANGED <<events, srcs>>
      [] OTHER ->
           /\ pc' = "done"
           /\ UNCHANGED <<events, srcs, error>>

\* lines 90-95: chat returns the parsed body
ChatParsed(parsed) ==
    IF ~parsed.ok
    THEN /\ pc' = "raised"
         /\ error' = ClientError(op, "JSONDecodeError", <<"JSONDecodeError">>)
         /\ UNCHANGED result
    ELSE /\ pc' = "done"
         /\ result' = parsed.val
         /\ UNCHANGED error

\* lines 89-95: chat decodes the joined body
ChatReturn(d) ==
    IF ~d.ok
    THEN /\ pc' = "raised"
         /\ error' = ClientError(op, "UnicodeDecodeError", <<"UnicodeDecodeError">>)
         /\ UNCHANGED result
    ELSE ChatParsed(json_loads(d.text))

\* the body has ended: _make_request leaves its `async with` blocks, then
\* stream_chat flushes its buffer and chat parses the body
TransportEnd ==
    /\ pc = "await_chunk"
    /\ pos = Len(resp.body)
    /\ session' = "closed"
    /\ IF op = "chat"
       THEN ChatReturn(decode_strict(Join(response_chunks))) /\ UNCHANGED <<events, srcs>>
       ELSE Flush(FlushOutcome(buffer)) /\ UNCHANGED result
    /\ UNCHANGED <<ctor, environ, self, args, other, posted>>
    /\ UNCHANGED <<op, resp, pos, buffer, response_chunks, text>>

\* the consumer asks for the next event
Pull ==
    /\ pc \in {"yielded", "yielded_flush"}
    /\ IF pc = "yielded"
       THEN Resume(RunLines(buffer), text)
       ELSE /\ pc' = "done"
            /\ UNCHANGED <<buffer, events, srcs, error>>
    /\ UNCHANGED <<ctor, environ, self, args, other, posted>>
    /\ UNCHANGED <<op, resp, session, pos, response_chunks, result, text>>

\* the consumer closes the event sequence (aclose): GeneratorExit leaves
\* stream_chat at its yield; the generator of _make_request is not closed
Close ==
    /\ op = "stream_chat"
    /\ pc \in {"created", "yielded", "yielded_flush"}
    /\ pc' = "closed"
    /\ UNCHANGED <<ctor, environ, self, args, other, posted>>
    /\ UNCHANGED <<op, resp, session, pos, buffer, events, response_chunks,
                   result, error, text, srcs>>

\* the generator of _make_request that a finished call left suspended is
\* finalized by the event loop, which closes the session
Finalize ==
    /\ pc \in {"raised", "closed"}
    /\ session = "open"
    /\ session' = "closed"
    /\ UNCHANGED <<ctor, environ, self, args, other, posted>>
    /\ UNCHANGED <<op, resp, pc, pos, buffer, events, response_chunks,
                   result, error, text, srcs>>

Next ==
    \/ Call
    \/ ResponseArrives
    \/ \E fault \in NetworkFaults : NetworkFault(fault)
    \/ Cancel
    \/ \E k \in 0..Len(resp.body) : ChunkArrives(k)
    \/ TransportEnd
    \/ Pull
    \/ Close
    \/ Finalize

Spec == Init /\ [][Next]_vars

\* the locals of the running call
Locals ==
    [op |-> op, resp |-> resp, pc |-> pc, session |-> session, pos |-> pos,
     buffer |-> buffer, events |-> events, response_chunks |-> response_chunks,
     result |-> result, error |-> error, text |-> text, srcs |-> srcs,
     args |-> args, posted |-> posted]

\* a switch between two calls that keep their buffer in the client
SwitchSharedBuffer ==
    /\ other # Idle
    /\ other' = Locals
    /\ op' = other.op
    /\ resp' = other.resp
    /\ pc' = other.pc
    /\ session' = other.session
    /\ pos' = other.pos
    /\ events' = other.events
    /\ response_chunks' = other.response_chunks
    /\ result' = other.result
    /\ error' = other.error
    /\ text' = other.text
    /\ srcs' = other.srcs
    /\ args' = other.args
    /\ posted' = other.posted
    /\ UNCHANGED <<ctor, environ, self, buffer>>

\* the event loop leaves the running call at its suspension point and runs
\* the second call of the client: every local of lines 109-118 and 200-216
\* belongs to its call, the attributes of the client are shared
Switch ==
    /\ other # Idle
    /\ other' = Locals
    /\ op' = other.op
    /\ resp' = other.resp
    /\ pc' = other.pc
    /\ session' = other.session
    /\ pos' = other.pos
    /\ buffer' = other.buffer
    /\ events' = other.events
    /\ response_chunks' = other.response_chunks
    /\ result' = other.result
    /\ error' = other.error
    /\ text' = other.text
    /\ srcs' = other.srcs
    /\ args' = other.args
    /\ posted' = other.posted
    /\ UNCHANGED <<ctor, environ, self>>

\* the streams of two calls that run on one client
TwoBodies == {LINES[HI] \o <<NL>>, LINES[2]}

\* a call of stream_chat that has not started
NewStream(body) ==
    [op |-> "stream_chat", resp |-> OkResponse(body), pc |-> "created",
     session |-> "none", pos |-> 0, buffer |-> <<>>, events |-> <<>>,
     response_chunks |-> <<>>, result |-> JNone, error |-> NoError,
     text |-> <<>>, srcs |-> <<>>, args |-> DefaultArgs, posted |-> <<>>]

\* two calls of stream_chat on one client
InitTwo ==
    /\ op = "stream_chat"
    /\ resp = OkResponse(LINES[HI] \o <<NL>>)
    /\ FreshCall
    /\ ctor = DefaultCtor
    /\ environ = None
    /\ self = Construct(ctor, environ)
    /\ args = DefaultArgs
    /\ other \in {NewStream(b) : b \in TwoBodies}

NextTwo ==
    \/ Call
    \/ ResponseArrives
    \/ \E fault \in NetworkFaults : NetworkFault(fault)
    \/ Cancel
    \/ \E k \in 0..Len(resp.body) : ChunkArrives(k)
    \/ TransportEnd
    \/ Pull
    \/ Close
    \/ Finalize
    \/ Switch

SpecTwo == InitTwo /\ [][NextTwo]_vars

\* the responses to the calls whose arguments vary
ArgResponses(operation) ==
    IF operation = "chat" THEN Responses("chat")
    ELSE {OkResponse(LINES[HI] \o <<NL>>), ErrorResponse(429, "rate limited")}

\* the calls of chat and stream_chat with every message sequence and model
InitArgs ==
    /\ op \in {"chat", "stream_chat"}
    /\ resp \in ArgResponses(op)
    /\ FreshCall
    /\ ctor = DefaultCtor
    /\ environ = None
    /\ self = Construct(ctor, environ)
    /\ args \in [messages : MessageSeqs, model : ModelNames]
    /\ other = Idle

SpecArgs == InitArgs /\ [][Next]_vars

\* a step in which the transport delivers a chunk that is not empty: only
\* ChunkArrives changes pos
DataArrives == pc = "await_chunk" /\ pos' \in (pos + 1)..Len(resp.body)

\* a step in which the body has arrived whole and the chunks end
ChunksEnd ==
    pc = "await_chunk" /\ pos = Len(resp.body) /\ pc' \in {"done", "yielded_flush", "raised"}

\* the responses to the calls that are followed to their end: a stream of
\* two lines without a last newline, a stream of the end marker, a line and
\* a comment, a stream of a number, an empty stream and an error
LiveResponses ==
    { OkResponse(JoinLines(<<2, HI>>)),
      OkResponse(JoinLines(<<4, HI>>) \o <<NL>> \o LINES[Len(PAYLOADS) + 2]),
      OkResponse(LINES[6] \o <<NL>>),
      OkResponse(<<>>),
      ErrorResponse(429, "rate limited") }

InitLive ==
    /\ op = "stream_chat"
    /\ resp \in LiveResponses
    /\ FreshCall
    /\ ctor = DefaultCtor
    /\ environ = None
    /\ self = Construct(ctor, environ)
    /\ args = DefaultArgs
    /\ other = Idle

\* a call that is started, whose transport delivers finitely many chunks
\* and then ends, and whose consumer asks for the next event after each one
SpecLive ==
    /\ InitLive
    /\ [][Next]_vars
    /\ WF_vars(Call)
    /\ WF_vars(ResponseArrives)
    /\ WF_pos(DataArrives)
    /\ WF_pc(ChunksEnd)
    /\ WF_vars(Pull)

\* the responses to the calls of the clients of every configuration
ConfigResponses(operation) ==
    IF operation = "chat"
    THEN {OkResponse(<<"{", "}">>), ErrorResponse(500, "")}
    ELSE {OkResponse(LINES[HI] \o <<NL>>)}

\* lines 20-36: the clients constructed with every proxy and timeout, in
\* every environment
InitConfig ==
    /\ op \in {"chat", "stream_chat"}
    /\ resp \in ConfigResponses(op)
    /\ FreshCall
    /\ ctor \in [api_key : {DefaultCtor.api_key}, api_url : {DefaultCtor.api_url},
                 timeout : TimeoutValues, proxy : ProxyValues]
    /\ environ \in EnvironValues
    /\ self = Construct(ctor, environ)
    /\ args = DefaultArgs
    /\ other = Idle

SpecConfig == InitConfig /\ [][Next]_vars

\* the calls whose stream is made of plain lines
InitPlain == Init /\ (op = "stream_chat" => resp.body \in PlainBodies)

SpecPlain == InitPlain /\ [][Next]_vars

(***************************************************************************)
(* The result of a whole stream_chat call on a text that arrives as one    *)
(* chunk, for a consumer that pulls every event                            *)
(***************************************************************************)
RECURSIVE DrainLines(_, _)
\* the while loop of lines 127-155 resumed after every yield
DrainLines(buf, evs) ==
    LET r == RunLines(buf)
    IN  IF r.kind = "event" THEN DrainLines(r.buffer, Append(evs, Event(r.content)))
        ELSE [events |-> evs, kind |-> r.kind, buffer |-> r.buffer]

\* lines 118-182: the events of the call and the type of the exception it
\* ends with ("none" when the event sequence just ends)
DecodeStream(t) ==
    LET d == DrainLines(t, <<>>)
        f == FlushOutcome(d.buffer)
    IN  IF d.kind = "error" THEN [events |-> d.events, raised |-> "ClientError"]
        ELSE IF f.kind = "event"
             THEN [events |-> Append(d.events, Event(f.content)), raised |-> "none"]
        ELSE IF f.kind = "error" THEN [events |-> d.events, raised |-> f.exc]
        ELSE [events |-> d.events, raised |-> "none"]

(***************************************************************************)
(* Properties                                                              *)
(***************************************************************************)
\* a stream_chat call on a 200 response that has consumed the whole body:
\* the events have ended or a decoding step has raised
StreamFinished ==
    /\ op = "stream_chat"
    /\ resp.status = 200
    /\ pc \in {"done", "raised"}
    /\ error.cause \notin NetworkFaults

\* what the caller has seen of the call
Observed == [events |-> events, raised |-> error.type]

RECURSIVE NthLine(_, _)
\* the n-th line of a text, n = 1 for the first; the last one is the
\* fragment after the last newline
NthLine(t, n) ==
    IF ~HasNewline(t) THEN t
    ELSE IF n = 1 THEN split_newline(t)[1]
    ELSE NthLine(split_newline(t)[2], n - 1)

\* a value of the shape {choices: [{delta: {content: <non-empty string>}}, ...]}
HasDeltaShape(v) ==
    /\ v.t = "dict"
    /\ PyIn(K_choices, v) = "True"
    /\ DictGet(v, K_choices).t = "list"
    /\ DictGet(v, K_choices).items # <<>>
    /\ LET first == DictGet(v, K_choices).items[1]
       IN  /\ first.t = "dict"
           /\ PyIn(K_delta, first) = "True"
           /\ DictGet(first, K_delta).t = "dict"
           /\ PyIn(K_content, DictGet(first, K_delta)) = "True"
           /\ DictGet(DictGet(first, K_delta), K_content).t = "str"
           /\ DictGet(DictGet(first, K_delta), K_content).s # <<>>

ShapeContent(v) == DictGet(DictGet(DictGet(v, K_choices).items[1], K_delta), K_content)

RECURSIVE HasNonFinite(_)
\* the value holds NaN, Infinity or -Infinity, which JSON does not have
HasNonFinite(v) ==
    \/ v.t = "float"
    \/ \E i \in 1..Len(v.items) : HasNonFinite(v.items[i])

\* the payload is a JSON text
ValidJSON(payload) == json_loads(payload).ok /\ ~HasNonFinite(json_loads(payload).val)

IsDataLine(raw) == startswith(strip(raw), DATA_PREFIX)

Payload(raw) == strip(Drop(strip(raw), 6))

\* a data line whose payload is not JSON
MalformedLine(raw) == IsDataLine(raw) /\ ~ValidJSON(Payload(raw))

\* a data line whose payload is JSON without the delta shape
ShapelessLine(raw) ==
    /\ IsDataLine(raw)
    /\ ValidJSON(Payload(raw))
    /\ ~HasDeltaShape(json_loads(Payload(raw)).val)

RECURSIVE WithoutLines(_, _)
\* the text without its complete lines of one kind
WithoutLines(t, kind) ==
    IF ~HasNewline(t) THEN t
    ELSE LET sp   == split_newline(t)
             drop == IF kind = "malformed" THEN MalformedLine(sp[1]) ELSE ShapelessLine(sp[1])
         IN  IF drop THEN WithoutLines(sp[2], kind)
             ELSE sp[1] \o <<NL>> \o WithoutLines(sp[2], kind)

\* C1: whatever the chunks into which the bytes of the body are split, a
\* finished stream_chat call has emitted the events, and ended the way, of
\* the call that receives the same bytes as a single chunk
C1_FragmentationInvariance ==
    StreamFinished => Observed = DecodeStream(decode_ignore(resp.body))

\* C2: complete data lines whose payload is not JSON yield nothing and
\* raise nothing: the call emits the events, and ends the way, of the same
\* stream without these lines
C2_MalformedLineIgnored ==
    StreamFinished => Observed = DecodeStream(WithoutLines(text, "malformed"))

\* C3: complete data lines whose payload is JSON of another shape than the
\* delta shape yield nothing and raise nothing: the call emits the events,
\* and ends the way, of the same stream without these lines
C3_ShapelessLineIgnored ==
    StreamFinished => Observed = DecodeStream(WithoutLines(text, "shapeless"))

\* C4: an exception that reaches the caller of chat or stream_chat is a
\* ClientError
C4_OnlyClientErrorEscapes ==
    pc = "raised" => error.type = "ClientError"

\* C5: a stream that ends in a fragment without newline gives the events
\* of the same stream followed by a newline, and fails exactly when that
\* stream fails
C5_FlushAsLine ==
    (StreamFinished /\ text # <<>> /\ text[Len(text)] # NL)
        => /\ events = DecodeStream(text \o <<NL>>).events
           /\ (error.type = "none") = (DecodeStream(text \o <<NL>>).raised = "none")

\* the event that the delta-shape rule gives for a line, if any
ShapeEvents(raw) ==
    IF IsDataLine(raw) /\ json_loads(Payload(raw)).ok
       /\ HasDeltaShape(json_loads(Payload(raw)).val)
    THEN <<Event(ShapeContent(json_loads(Payload(raw)).val))>>
    ELSE <<>>

RECURSIVE ShapeEventsOfLines(_)
\* the events that the delta-shape rule gives for the complete lines of a text
ShapeEventsOfLines(t) ==
    IF ~HasNewline(t) THEN <<>>
    ELSE ShapeEvents(split_newline(t)[1]) \o ShapeEventsOfLines(split_newline(t)[2])

\* C6: every event has role "assistant" and a non-empty string as content,
\* and when the call awaits the next chunk the events emitted are exactly
\* those of the complete lines received that have the delta shape, one each
C6_EventIffDeltaShape ==
    /\ \A i \in 1..Len(events) :
          /\ events[i].role = "assistant"
          /\ events[i].content.t = "str"
          /\ events[i].content.s # <<>>
    /\ (op = "stream_chat" /\ pc = "await_chunk") => events = ShapeEventsOfLines(text)

InMsg(part, msg) == \E i \in 1..Len(msg) : msg[i] = part

\* C7: a response with another status than 200 makes chat and stream_chat
\* raise a ClientError whose message holds the status and the body text;
\* no chunk is read and no event is emitted
C7_StatusError ==
    resp.status # 200 =>
        /\ pc \in {"created", "await_response", "raised", "cancelled", "closed"}
        /\ events = <<>>
        /\ pos = 0
        /\ (pc = "raised" /\ error.cause \notin NetworkFaults) =>
              /\ error.type = "ClientError"
              /\ InMsg(StatusStr(resp.status), error.msg)
              /\ InMsg(resp.error_text, error.msg)

C7_Witness ==
    /\ op = "stream_chat"
    /\ pc = "raised"
    /\ resp.status = 429
    /\ resp.error_text = "rate limited"
    /\ error.cause = "ClientError"

\* the outcome of the n-th line of the text: that of a complete line, or of
\* the flushed fragment when n is past the last newline
OutcomeOfLine(t, n) ==
    IF n <= CountNL(t) THEN LineOutcome(NthLine(t, n)) ELSE FlushOutcome(NthLine(t, n))

\* C8: the events come from lines of strictly increasing position, each
\* event is the one of its line, and no earlier line that gives an event
\* was passed over
C8_Ordering ==
    op = "stream_chat" =>
        /\ Len(srcs) = Len(events)
        /\ \A i \in 1..Len(srcs) : \A j \in 1..Len(srcs) : i < j => srcs[i] < srcs[j]
        /\ \A i \in 1..Len(srcs) :
              /\ srcs[i] \in 1..(CountNL(text) + 1)
              /\ OutcomeOfLine(text, srcs[i]) = Yields(events[i].content)
        /\ \A i \in 1..Len(srcs) : \A n \in 1..(srcs[i] - 1) :
              (\A j \in 1..Len(srcs) : srcs[j] # n) => OutcomeOfLine(text, n).kind # "event"

C8_Witness ==
    /\ Len(events) = 2
    /\ events[1] # events[2]
    /\ pc = "yielded_flush"

\* C9: when a call has ended, in whatever way, its session is closed
C9_ReleasedOnExit ==
    pc \in {"done", "raised", "closed", "cancelled"} => session # "open"

\* C10: when stream_chat asks the transport for the next chunk, the buffer
\* holds no complete line and the consumer has received every event of the
\* lines received so far
C10_Backpressure ==
    (op = "stream_chat" /\ pc = "await_chunk") =>
        /\ ~HasNewline(buffer)
        /\ events = DrainLines(text, <<>>).events

C10_Witness ==
    /\ op = "stream_chat"
    /\ pc = "await_chunk"
    /\ Len(events) = 1
    /\ pos < Len(resp.body)
    /\ buffer # <<>>

IsPrefix(p, q) == Len(p) <= Len(q) /\ SubSeq(q, 1, Len(p)) = p

\* a call with locals c has received a prefix of its own stream and has
\* emitted what a call that runs alone emits on that prefix
RunsAsAlone(c) ==
    c.op = "stream_chat" =>
        /\ c.text = decode_ignore(SubSeq(c.resp.body, 1, c.pos))
        /\ IsPrefix(c.events, DecodeStream(c.text).events)
        /\ c.pc = "await_chunk" =>
              /\ c.events = DrainLines(c.text, <<>>).events
              /\ c.buffer = DrainLines(c.text, <<>>).buffer
        /\ c.pc = "yielded" => c.events # <<>>
        /\ c.pc \in {"yielded_flush", "done"} => c.events = DecodeStream(c.text).events

\* C11: two stream_chat calls on one client, switched at any suspension
\* point: each call emits the events of its own stream, as when it runs
\* alone, and two calls that have finished the same stream have emitted the
\* same events
C11_CallIndependence ==
    /\ RunsAsAlone(Locals)
    /\ other # Idle =>
          /\ RunsAsAlone(other)
          /\ (pc = "done" /\ other.pc = "done" /\ resp.body = other.resp.body)
                => events = other.events

C11_Witness ==
    /\ other # Idle
    /\ pc = "await_chunk"
    /\ other.pc = "yielded"
    /\ buffer # <<>>
    /\ other.buffer = <<>>
    /\ resp.body # other.resp.body
    /\ posted # <<>>

\* C12: a call posts one request and no more, also when it fails; its body
\* holds the model, the messages in the order given and stream = false for
\* chat, true for stream_chat; chat returns the parsed document of the whole
\* body of a 200 response, in whatever chunks the body arrived
C12_OneRequest ==
    /\ Len(posted) <= 1
    /\ session = "none" => posted = <<>>
    /\ session # "none" => Len(posted) = 1
    /\ \A i \in 1..Len(posted) :
          posted[i].json = [model    |-> args.model,
                            messages |-> args.messages,
                            stream   |-> (op = "stream_chat")]
    /\ (op = "chat" /\ pc = "done") =>
          /\ resp.status = 200
          /\ decode_strict(resp.body).ok
          /\ json_loads(decode_strict(resp.body).text).ok
          /\ result = json_loads(decode_strict(resp.body).text).val

C12_Witness ==
    /\ op = "chat"
    /\ pc = "done"
    /\ Len(response_chunks) = 3
    /\ \A i \in 1..3 : response_chunks[i] # <<>>
    /\ result.t = "dict"
    /\ result.keys # <<>>
    /\ Len(args.messages) = 2
    /\ args.messages[1] # args.messages[2]

\* C13: chat returns only when the whole body of a 200 response has
\* arrived, is valid UTF-8 and is one JSON document; in every other case it
\* raises one ClientError whose message wraps the message of the cause, and
\* it holds no result
C13_ChatFailsWhole ==
    op = "chat" =>
        /\ pc = "raised" =>
              /\ error.type = "ClientError"
              /\ Len(error.msg) >= 2
              /\ result = JNone
        /\ pc # "done" => result = JNone
        /\ pc = "done" =>
              /\ resp.status = 200
              /\ pos = Len(resp.body)
              /\ Join(response_chunks) = resp.body
              /\ decode_strict(resp.body).ok
              /\ ValidJSON(decode_strict(resp.body).text)

\* a line, or an unterminated last fragment, that holds the end marker
IsDoneLine(raw) == IsDataLine(raw) /\ Payload(raw) = DONE

RECURSIVE WithoutDone(_)
\* the text without the lines that hold the end marker
WithoutDone(t) ==
    IF ~HasNewline(t) THEN (IF IsDoneLine(t) THEN <<>> ELSE t)
    ELSE IF IsDoneLine(split_newline(t)[1]) THEN WithoutDone(split_newline(t)[2])
    ELSE split_newline(t)[1] \o <<NL>> \o WithoutDone(split_newline(t)[2])

\* C14: a line `data: [DONE]` is a discarded line wherever it stands: a
\* finished call has emitted the events, and ended the way, of the same
\* stream without these lines, and a call that awaits the next chunk has
\* emitted every event of the other lines received
C14_DoneDiscarded ==
    /\ StreamFinished => Observed = DecodeStream(WithoutDone(text))
    /\ (op = "stream_chat" /\ pc = "await_chunk")
          => events = DrainLines(WithoutDone(text), <<>>).events

C14_Witness ==
    /\ op = "stream_chat"
    /\ pc = "await_chunk"
    /\ IsDoneLine(NthLine(text, 1))
    /\ CountNL(text) = 2
    /\ srcs = <<2>>

\* the decoded text of the bytes received so far
Received == decode_ignore(SubSeq(resp.body, 1, pos))

IsSuffix(p, q) == Len(p) <= Len(q) /\ SubSeq(q, Len(q) - Len(p) + 1, Len(q)) = p

\* the text after the last newline
AfterLastNewline(t) == IF HasNewline(t) THEN Drop(t, LastNewline(t)) ELSE t

\* C15: the text appended to the buffer is the whole input received, the
\* buffer is always its end, and whenever the next chunk is awaited the
\* buffer holds no newline and is everything received after the last one
C15_BufferInvariant ==
    op = "stream_chat" =>
        /\ text = Received
        /\ IsSuffix(buffer, Received)
        /\ pc = "await_chunk" =>
              /\ ~HasNewline(buffer)
              /\ buffer = AfterLastNewline(Received)

\* stream_chat has ended with the error of a network fault
FailedByTransport ==
    op = "stream_chat" /\ pc = "raised" /\ error.cause \in NetworkFaults

\* C16: when the transport fails, stream_chat raises a ClientError that
\* holds the fault; the events emitted are those of the complete lines
\* received, in order, without the fragment left in the buffer, and from
\* then on the call emits nothing and stays failed
C16_TransportFailureFinal ==
    /\ [](FailedByTransport =>
             /\ error.type = "ClientError"
             /\ InMsg(error.cause, error.msg)
             /\ events = DrainLines(text, <<>>).events
             /\ buffer = AfterLastNewline(text))
    /\ [][FailedByTransport => (FailedByTransport' /\ events' = events /\ error' = error)]_vars

C16_Witness ==
    /\ FailedByTransport
    /\ Len(events) = 1
    /\ FlushOutcome(buffer).kind = "event"

\* stream_chat takes a chunk with a byte that cannot be decoded
BadChunkArrives ==
    /\ op = "stream_chat"
    /\ pc = "await_chunk"
    /\ pos' > pos
    /\ \E i \in 1..(pos' - pos) : Undecodable(SubSeq(resp.body, pos + 1, pos'), i)

\* C17: a chunk with bytes that cannot be decoded makes stream_chat neither
\* raise nor stop: the decodable text of the chunk is appended to the
\* buffer, and whenever the next chunk is awaited every event of the
\* complete lines of the text so far has been emitted
C17_EncodingFaultNotFatal ==
    /\ [](op = "stream_chat" =>
             /\ error.type # "UnicodeDecodeError"
             /\ error.cause # "UnicodeDecodeError"
             /\ pc = "await_chunk" => events = DrainLines(text, <<>>).events)
    /\ [][BadChunkArrives =>
             /\ text' = text \o Decodable(SubSeq(resp.body, pos + 1, pos'))
             /\ IsSuffix(buffer', buffer \o Decodable(SubSeq(resp.body, pos + 1, pos')))
             /\ pc' \in {"await_chunk", "yielded"}
             /\ error' = NoError]_vars

C17_Witness ==
    /\ op = "stream_chat"
    /\ pc = "done"
    /\ \E i \in 1..Len(resp.body) : resp.body[i] \in InvalidBytes
    /\ Len(events) = 2
    /\ events[1].content.s = <<"H", "i">>

\* the lines of a text: those that end in a newline and the fragment after
\* the last newline, if any
CountLines(t) == CountNL(t) + (IF AfterLastNewline(t) = <<>> THEN 0 ELSE 1)

\* C18: a stream_chat call whose transport ends and whose consumer keeps
\* pulling comes to an end; every step that emits an event from the loop
\* takes at least one newline off the buffer, and the events are never more
\* than the lines received
C18_Termination ==
    /\ (op = "stream_chat") => <>(pc \in {"done", "raised", "closed", "cancelled"})
    /\ [](op = "stream_chat" => Len(events) <= CountLines(text))
    /\ [][(op = "stream_chat" /\ pc' = "yielded" /\ events' # events)
              => CountNL(buffer') < CountNL(buffer) + (CountNL(text') - CountNL(text))]_vars

C18_Witness ==
    /\ op = "stream_chat"
    /\ pc = "done"
    /\ resp.status = 200
    /\ Len(events) = 2
    /\ CountLines(text) = 2
    /\ buffer # <<>>

\* a proxy address was given
Given(p) == p # None /\ p # <<>>

\* the proxy address of the client: the one given to the constructor, else
\* the one of the environment
ProxyAddress == IF Given(ctor.proxy) THEN ctor.proxy ELSE environ

HasHttpScheme(p) == Given(p) /\ (startswith(p, HTTP_SCHEME) \/ startswith(p, HTTPS_SCHEME))

\* C19: the request is sent through the proxy address of the client when
\* that address starts with http:// or https://, and without a proxy for
\* any other value; when a proxy was given to the constructor the session
\* does not look for proxies in the environment
C19_ProxySelection ==
    \A i \in 1..Len(posted) :
        /\ HasHttpScheme(ProxyAddress) => posted[i].proxy = ProxyAddress
        /\ ~HasHttpScheme(ProxyAddress) => posted[i].proxy = None
        /\ Given(ctor.proxy) => ~posted[i].trust_env

\* C19 as amended: the request is sent through the proxy address of the
\* client when that address starts with http:// or https://, and without a
\* proxy for any other value; the session looks for proxies in the
\* environment exactly when no proxy is handed to the request
C19_ProxySelectionAmended ==
    \A i \in 1..Len(posted) :
        /\ HasHttpScheme(ProxyAddress) => posted[i].proxy = ProxyAddress
        /\ ~HasHttpScheme(ProxyAddress) => posted[i].proxy = None
        /\ posted[i].trust_env <=> posted[i].proxy = None

C19_Witness ==
    /\ Len(posted) = 1
    /\ Given(ctor.proxy)
    /\ ~HasHttpScheme(ctor.proxy)
    /\ HasHttpScheme(environ)
    /\ posted[1].proxy = None
    /\ posted[1].trust_env

\* the timeout of a request: the override of the call when one is given,
\* else the timeout that the client keeps from its construction
TimeoutOf(override) == IF override # NoTimeout THEN override ELSE self.timeout

\* C20: chat and stream_chat give no override, so their request is posted
\* with the timeout that the client keeps from its construction
C20_TimeoutSelection ==
    \A i \in 1..Len(posted) : posted[i].timeout = TimeoutOf(NoTimeout)

====
